---- MODULE Spec2Model ----
(***************************************************************************)
(* A model of tinyraytracer-rs: the vector arithmetic of geometry.rs, the  *)
(* analytic sphere test, scene_intersect, cast_ray, the tone mapping and   *)
(* the per-pixel loop of render, and the update/render loop of main.       *)
(*                                                                         *)
(* Numbers.  The program computes in f32 (f64 for the frame accumulator).  *)
(* A float is modelled as a fixed-point number: the integer n stands for   *)
(* n / SCALE.  Sums and differences are exact; a product, a quotient and a *)
(* square root are rounded to the nearest representable value, as the      *)
(* floating-point operations are, but to a fixed step 1/SCALE and not to a *)
(* 24-bit mantissa.  The products are split so that no intermediate value  *)
(* leaves 32 bits.                                                         *)
(***************************************************************************)
EXTENDS Integers, Sequences, FiniteSets, TLC

\* ---------------------------------------------------------------- numbers

\* `let x = v; F(x)`: v is evaluated once and F gets its value, as a Rust
\* binding or a by-value argument does.
Let(v, F(_)) == CHOOSE r \in {F(x) : x \in {v}} : TRUE

\* One unit (1.0) in fixed point.
SCALE == 1000

Fx(n) == n * SCALE

\* floor(a * b / SCALE), exact, for b of either sign.
FloorMulDiv(a, b) == (a \div SCALE) * b + ((a % SCALE) * b) \div SCALE

\* a * b on floats: the product rounded to the nearest step.
Mul(a, b) == (a \div SCALE) * b + ((a % SCALE) * b + SCALE \div 2) \div SCALE

\* a / b on floats (b > 0 wherever the program divides).
Div(a, b) == (a * SCALE + b \div 2) \div b

\* r * r <= x * SCALE, computed without forming either product.
SqLe(r, x) ==
    Let(FloorMulDiv(r, r), LAMBDA q :
        q < x \/ (q = x /\ ((r % SCALE) * (r % SCALE)) % SCALE = 0))

RECURSIVE SqrtSearch(_, _, _)
\* The largest r in lo..hi with r * r <= x * SCALE (lo satisfies it).
SqrtSearch(x, lo, hi) ==
    IF lo >= hi THEN lo
    ELSE Let((lo + hi + 1) \div 2, LAMBDA mid :
             IF SqLe(mid, x) THEN SqrtSearch(x, mid, hi)
             ELSE SqrtSearch(x, lo, mid - 1))

\* f32::sqrt for x >= 0: the root rounded to the nearest step.
Sqrt(v) ==
    Let(v, LAMBDA x :
    Let(IF x < SCALE THEN SCALE ELSE IF x < 1465 * SCALE THEN x ELSE 1465 * SCALE,
        LAMBDA hi :
    Let(SqrtSearch(x, 0, hi), LAMBDA r :
        IF FloorMulDiv(r, r + 1) < x THEN r + 1 ELSE r)))

\* f32::max
FMax(a, b) == IF a >= b THEN a ELSE b

RECURSIVE PowInt(_, _)
\* x to the n-th power by squaring.
PowInt(x, n) ==
    IF n = 0 THEN SCALE
    ELSE Let(PowInt(x, n \div 2), LAMBDA h :
         Let(Mul(h, h), LAMBDA sq :
             IF n % 2 = 1 THEN Mul(sq, x) ELSE sq))

\* f32::powf for the whole-number exponents the scene uses.
Powf(v, e) == Let(v, LAMBDA x : PowInt(x, e \div SCALE))

\* f32::tan for small arguments, by its series to the ninth power.
Tan(v) ==
    Let(v, LAMBDA x :
    Let(Mul(x, x), LAMBDA x2 :
    Let(Mul(x2, x), LAMBDA x3 :
    Let(Mul(x3, x2), LAMBDA x5 :
    Let(Mul(x5, x2), LAMBDA x7 :
    Let(Mul(x7, x2), LAMBDA x9 :
        x + Div(x3, Fx(3)) + Div(Mul(Fx(2), x5), Fx(15))
          + Div(Mul(Fx(17), x7), Fx(315)) + Div(Mul(Fx(62), x9), Fx(2835))))))))

\* Option<T>
None == [some |-> FALSE]

Some(v) == [some |-> TRUE, val |-> v]

\* --------------------------------------------------------------- geometry

Vec2(x, y) == [x |-> x, y |-> y]

Vec3(x, y, z) == [x |-> x, y |-> y, z |-> z]

\* Vec3 from whole-number coordinates.
V(x, y, z) == Vec3(Fx(x), Fx(y), Fx(z))

Zero3 == Vec3(0, 0, 0)

Add(a, b) == Let(<<a, b>>, LAMBDA p :
    Vec3(p[1].x + p[2].x, p[1].y + p[2].y, p[1].z + p[2].z))

Sub(a, b) == Let(<<a, b>>, LAMBDA p :
    Vec3(p[1].x - p[2].x, p[1].y - p[2].y, p[1].z - p[2].z))

VMul(a, rhs) == Let(<<a, rhs>>, LAMBDA p :
    Vec3(Mul(p[1].x, p[2]), Mul(p[1].y, p[2]), Mul(p[1].z, p[2])))

VDiv(a, rhs) == Let(<<a, rhs>>, LAMBDA p :
    Vec3(Div(p[1].x, p[2]), Div(p[1].y, p[2]), Div(p[1].z, p[2])))

Neg(a) == Let(a, LAMBDA p : Vec3(-p.x, -p.y, -p.z))

dot(lhs, rhs) == Let(<<lhs, rhs>>, LAMBDA p :
    Mul(p[1].x, p[2].x) + Mul(p[1].y, p[2].y) + Mul(p[1].z, p[2].z))

length(v) == Let(v, LAMBDA p : Sqrt(dot(p, p)))

normalise(v) == Let(v, LAMBDA p : VDiv(p, length(p)))

\* reflect(v, n) = v - 2 dot(v, n) n
reflect(v, n) == Let(<<v, n>>, LAMBDA p :
    Sub(p[1], VMul(VMul(p[2], Fx(2)), dot(p[1], p[2]))))

Ray(origin, direction) == [origin |-> origin, direction |-> direction]

Material(albedo, diffuse_colour, specular_exponent) ==
    [albedo |-> albedo, diffuse_colour |-> diffuse_colour,
     specular_exponent |-> specular_exponent]

DEFAULT_COLOUR == Vec3(400, 400, 300)

MaterialDefault == Material(Vec2(Fx(1), 0), DEFAULT_COLOUR, Fx(1))

Sphere(centre, radius, material) ==
    [centre |-> centre, radius |-> radius, material |-> material]

Light(position, intensity) == [position |-> position, intensity |-> intensity]

\* RayRoots without `if t0 < 0 { t0 = t1 }`.
RayRootsEntryOnly(tca, d2, r2) ==
    Let(Sqrt(r2 - d2), LAMBDA thc :
    Let(tca - thc, LAMBDA t0 :
        IF t0 < 0 THEN None ELSE Some(t0)))

\* Sphere::ray_intersect, after `d2 > radius * radius` was found false.
RayRoots(tca, d2, r2) ==
    Let(Sqrt(r2 - d2), LAMBDA thc :
    Let(tca - thc, LAMBDA t0 :
    Let(tca + thc, LAMBDA t1 :
    Let(IF t0 < 0 THEN t1 ELSE t0, LAMBDA t :
        IF t < 0 THEN None ELSE Some(t)))))

\* Sphere::ray_intersect
ray_intersect(sphere, ray) ==
    Let(Sub(sphere.centre, ray.origin), LAMBDA l :
    Let(dot(l, ray.direction), LAMBDA tca :
    Let(dot(l, l) - Mul(tca, tca), LAMBDA d2 :
    Let(Mul(sphere.radius, sphere.radius), LAMBDA r2 :
        IF d2 > r2 THEN None ELSE RayRoots(tca, d2, r2)))))

\* ------------------------------------------------------------------ scene

\* std::f32::MAX: above every distance the model can form.
F32_MAX == 2147483647

MAX_DISTANCE == Fx(1000)

\* The body of `if distance < spheres_distance` in scene_intersect.
Nearer(distance, sphere, ray) ==
    Let(Add(ray.origin, VMul(ray.direction, distance)), LAMBDA hit :
        [spheres_distance |-> distance,
         hit      |-> hit,
         normal   |-> normalise(Sub(hit, sphere.centre)),
         material |-> sphere.material])

\* SceneStep with `distance <= spheres_distance`: the last of equals wins.
SceneStepLastWins(acc, sphere, ray) ==
    Let(ray_intersect(sphere, ray), LAMBDA d :
        IF d.some /\ d.val <= acc.spheres_distance
        THEN Nearer(d.val, sphere, ray)
        ELSE acc)

\* One iteration of the loop of scene_intersect: the nearest hit so far,
\* replaced when this sphere is hit strictly nearer.
SceneStep(acc, sphere, ray) ==
    Let(ray_intersect(sphere, ray), LAMBDA d :
        IF d.some /\ d.val < acc.spheres_distance
        THEN Nearer(d.val, sphere, ray)
        ELSE acc)

RECURSIVE SceneLoop(_, _, _)
\* The loop of scene_intersect after the first k spheres.
SceneLoop(k, ray, sph) ==
    IF k = 0
    THEN [spheres_distance |-> F32_MAX, hit |-> Zero3, normal |-> Zero3,
          material |-> MaterialDefault]
    ELSE Let(SceneLoop(k - 1, ray, sph), LAMBDA acc : SceneStep(acc, sph[k], ray))

\* scene_intersect without the test against MAX_DISTANCE.
scene_intersect_uncut(ray, sph) ==
    Let(SceneLoop(Len(sph), ray, sph), LAMBDA acc :
        IF acc.spheres_distance < F32_MAX
        THEN Some([hit |-> acc.hit, normal |-> acc.normal, material |-> acc.material])
        ELSE None)

scene_intersect(ray, sph) ==
    Let(SceneLoop(Len(sph), ray, sph), LAMBDA acc :
        IF acc.spheres_distance < MAX_DISTANCE
        THEN Some([hit |-> acc.hit, normal |-> acc.normal, material |-> acc.material])
        ELSE None)

\* ---------------------------------------------------------------- shading

\* The bias 1.0e-3 of the shadow ray's origin.
BIAS == 1

\* cast_ray: the origin of the shadow ray toward a light.
ShadowOrigin(point, normal, light_direction) ==
    IF dot(light_direction, normal) < 0
    THEN Sub(point, VMul(normal, BIAS))
    ELSE Add(point, VMul(normal, BIAS))

\* cast_ray: whether the shadow ray is cut short of the light.
ShadowHit(shadow_origin, light_direction, light_distance, sph) ==
    Let(scene_intersect(Ray(shadow_origin, light_direction), sph), LAMBDA shadow :
        shadow.some /\ length(Sub(shadow.val.hit, shadow_origin)) < light_distance)

\* cast_ray: the shadow test that skips a light with `continue`.
Occluded(h, light, sph) ==
    Let(normalise(Sub(light.position, h.hit)), LAMBDA light_direction :
    Let(length(Sub(light.position, h.hit)), LAMBDA light_distance :
    Let(ShadowOrigin(h.hit, h.normal, light_direction), LAMBDA shadow_origin :
        ShadowHit(shadow_origin, light_direction, light_distance, sph))))

\* cast_ray: dot(light_direction, normal)
DiffuseDot(h, light) ==
    Let(normalise(Sub(light.position, h.hit)), LAMBDA light_direction :
        dot(light_direction, h.normal))

\* cast_ray: dot(-reflection, ray.direction)
SpecularDot(h, light, ray) ==
    Let(normalise(Sub(light.position, h.hit)), LAMBDA light_direction :
    Let(reflect(Neg(light_direction), h.normal), LAMBDA reflection :
        dot(Neg(reflection), ray.direction)))

\* DiffuseTerm without `0.0f32.max(..)`.
DiffuseTermSigned(h, light) ==
    Mul(light.intensity, DiffuseDot(h, light))

\* cast_ray: what an unoccluded light adds to the diffuse sum.
DiffuseTerm(h, light) ==
    Mul(light.intensity, FMax(0, DiffuseDot(h, light)))

\* cast_ray: what an unoccluded light adds to the specular sum.
SpecularTerm(h, light, ray) ==
    Mul(Powf(FMax(0, SpecularDot(h, light, ray)), h.material.specular_exponent),
        light.intensity)

\* LightStep with the shadow test after the diffuse sum: an occluded light
\* still adds its diffuse term.
LightStepLateTest(acc, light, h, ray, sph) ==
    IF Occluded(h, light, sph)
    THEN [diffuse_intensity  |-> acc.diffuse_intensity + DiffuseTerm(h, light),
          specular_intensity |-> acc.specular_intensity]
    ELSE [diffuse_intensity  |-> acc.diffuse_intensity + DiffuseTerm(h, light),
          specular_intensity |-> acc.specular_intensity + SpecularTerm(h, light, ray)]

\* One iteration of the loop over the lights in cast_ray.
LightStep(acc, light, h, ray, sph) ==
    IF Occluded(h, light, sph)
    THEN acc
    ELSE [diffuse_intensity  |-> acc.diffuse_intensity + DiffuseTerm(h, light),
          specular_intensity |-> acc.specular_intensity + SpecularTerm(h, light, ray)]

RECURSIVE LightLoop(_, _, _, _, _)
\* The two sums of cast_ray after the first k lights.
LightLoop(k, h, ray, sph, lts) ==
    IF k = 0
    THEN [diffuse_intensity |-> 0, specular_intensity |-> 0]
    ELSE Let(LightLoop(k - 1, h, ray, sph, lts), LAMBDA acc :
             LightStep(acc, lts[k], h, ray, sph))

\* cast_ray: the colour from the two sums.
Shade(material, sums) ==
    Add(VMul(VMul(material.diffuse_colour, sums.diffuse_intensity), material.albedo.x),
        VMul(VMul(V(1, 1, 1), sums.specular_intensity), material.albedo.y))

cast_ray(ray, sph, lts) ==
    Let(scene_intersect(ray, sph), LAMBDA s :
        IF s.some
        THEN Let(LightLoop(Len(lts), s.val, ray, sph, lts), LAMBDA sums :
                 Some(Shade(s.val.material, sums)))
        ELSE None)

\* ----------------------------------------------------------- tone mapping

BACKGROUND_COLOUR == Vec3(200, 700, 800)

clamp(x, min, max) == IF x < min THEN min ELSE IF x > max THEN max ELSE x

\* `as u8`: the fraction dropped, the value kept within 0..255.
AsU8(v) == Let(v, LAMBDA x :
    IF x < 0 THEN 0 ELSE IF x >= Fx(255) THEN 255 ELSE x \div SCALE)

clamp_to_u8(x, min, max) == AsU8(Mul(Fx(255), clamp(x, min, max)))

\* render: the rescale of a colour whose largest channel exceeds 1.
Rescale(v) ==
    Let(FMax(v.x, FMax(v.y, v.z)), LAMBDA max :
        IF max > Fx(1) THEN VMul(v, Div(Fx(1), max)) ELSE v)

\* ToneMap with the channels clamped before the rescale.
ToneMapClampFirst(v) ==
    Let(Rescale(Vec3(clamp(v.x, 0, Fx(1)), clamp(v.y, 0, Fx(1)), clamp(v.z, 0, Fx(1)))),
        LAMBDA w :
        <<clamp_to_u8(w.x, 0, Fx(1)), clamp_to_u8(w.y, 0, Fx(1)),
          clamp_to_u8(w.z, 0, Fx(1))>>)

\* render: a colour to the three bytes of its pixel.
ToneMap(v) ==
    Let(Rescale(v), LAMBDA w :
        <<clamp_to_u8(w.x, 0, Fx(1)), clamp_to_u8(w.y, 0, Fx(1)),
          clamp_to_u8(w.z, 0, Fx(1))>>)

\* ----------------------------------------------------------------- camera

\* Image size (1024 x 768 in the program).
WIDTH == 2

HEIGHT == 2

PI == 3142

\* FOV = (PI / 2.0) as u32 as f32
FOV == Fx(Div(PI, Fx(2)) \div SCALE)

Pixels == (0 .. WIDTH - 1) \X (0 .. HEIGHT - 1)

\* render: the x and y of the direction through pixel (col, row).
PixelX(col, t) ==
    Div(Mul(Mul(Div(Mul(Fx(2), Fx(col) + SCALE \div 2), Fx(WIDTH)) - Fx(1), t),
            Fx(WIDTH)), Fx(HEIGHT))

PixelY(row, t) ==
    Mul(-(Div(Mul(Fx(2), Fx(row) + SCALE \div 2), Fx(HEIGHT)) - Fx(1)), t)

\* render: the primary ray of pixel (col, row).
PrimaryRay(col, row) ==
    Let(Tan(Div(FOV, Fx(2))), LAMBDA t :
    Let(Vec3(PixelX(col, t), PixelY(row, t), -Fx(1)), LAMBDA d :
        Ray(Zero3, normalise(d))))

\* Clear with black instead of the background colour.
ClearBlack == [p \in Pixels |-> <<0, 0, 0>>]

\* render: canvas.clear() with the tone-mapped background colour.
Clear == Let(ToneMap(BACKGROUND_COLOUR), LAMBDA pixel : [p \in Pixels |-> pixel])

\* DrawPixel with draw_point(j, i): the point drawn is the transposed one.
DrawPixelTransposed(cnv, p, sph, lts) ==
    Let(PrimaryRay(p[1], p[2]), LAMBDA r :
    Let(cast_ray(r, sph, lts), LAMBDA c :
        IF c.some /\ <<p[2], p[1]>> \in Pixels
        THEN [cnv EXCEPT ![<<p[2], p[1]>>] = ToneMap(c.val)]
        ELSE cnv))

\* render: the body of the closure for pixel p = <<col, row>>.
DrawPixel(cnv, p, sph, lts) ==
    Let(PrimaryRay(p[1], p[2]), LAMBDA r :
    Let(cast_ray(r, sph, lts), LAMBDA c :
        IF c.some THEN [cnv EXCEPT ![p] = ToneMap(c.val)] ELSE cnv))

\* ------------------------------------------------------------------ state

VARIABLES
    pc,         \* where the program is: main's loop, or the function under study
    spheres,    \* state.spheres
    lights,     \* state.lights
    delta,      \* main: the accumulator of elapsed update periods
    updates,    \* main: update calls since the last report
    frames,     \* main: render passes since the last report
    canvas,     \* the canvas being drawn: pixel -> <<r, g, b>>
    screen,     \* what the last present showed
    i, j,       \* render: the pixel the loops are at
    visits,     \* render: how often each pixel's closure ran in this pass
    delta0,     \* history: delta right after the elapsed time was added
    calls,      \* history: update calls in this iteration of main's loop
    ticks,      \* history: update calls since the program started
    ray,        \* the argument of the function under study
    result      \* what it returned

vars == <<pc, spheres, lights, delta, updates, frames, canvas, screen, i, j,
          visits, delta0, calls, ticks, ray, result>>

\* ------------------------------------------------------------------- main

ivory == Material(Vec2(600, 300), Vec3(400, 400, 300), Fx(50))

red_rubber == Material(Vec2(900, 100), Vec3(300, 100, 100), Fx(10))

MainSpheres ==
    << Sphere(Vec3(-3000, 0, -16000), Fx(2), ivory),
       Sphere(Vec3(-1000, -1500, -12000), Fx(2), red_rubber),
       Sphere(Vec3(1500, -500, -18000), Fx(3), red_rubber),
       Sphere(Vec3(7000, 5000, -18000), Fx(4), ivory) >>

MainLights ==
    << Light(V(-20, 20, 20), 1500),
       Light(V(30, 50, -25), 1800),
       Light(V(30, 20, 30), 1700) >>

\* update: one simulation step.
update(sph) ==
    [sph EXCEPT ![1].centre.x = @ + 50, ![2].centre.y = @ + 50,
                ![3].centre.z = @ + 50, ![4].centre.z = @ - 50]

\* Time is read in quarters of an update period.
TimeStep == SCALE \div 4

\* The longest time one iteration of the loop takes, in time steps.
MaxElapsed == 9

\* The update calls of a run.
MaxTicks == 5

\* The frames counted between two reports.
MaxFrames == 2

Blank == [p \in Pixels |-> <<0, 0, 0>>]

NoVisits == [p \in Pixels |-> 0]

NoCall == [op |-> "none"]

Init ==
    /\ pc = "loop"
    /\ spheres = MainSpheres
    /\ lights = MainLights
    /\ delta = 0
    /\ updates = 0
    /\ frames = 0
    /\ canvas = Blank
    /\ screen = Blank
    /\ i = 0
    /\ j = 0
    /\ visits = NoVisits
    /\ delta0 = 0
    /\ calls = 0
    /\ ticks = 0
    /\ ray = Ray(Zero3, Zero3)
    /\ result = NoCall

\* main: the events of one iteration are polled; Quit or Escape leaves the
\* loop, S panics (unimplemented!), anything else is ignored.
PollEvents ==
    /\ pc = "loop"
    /\ \E ev \in {"none", "other", "quit", "save"} :
          pc' = CASE ev = "quit" -> "exit"
                  [] ev = "save" -> "panic"
                  [] OTHER       -> "time"
    /\ UNCHANGED <<spheres, lights, delta, updates, frames, canvas, screen, i, j,
                   visits, delta0, calls, ticks, ray, result>>

\* main: delta += the time since the previous iteration (the sub-second part
\* of it, subsec_nanos), in update periods; never negative.
AddElapsed ==
    /\ pc = "time"
    /\ \E e \in 0 .. MaxElapsed :
          /\ ticks + (delta + e * TimeStep) \div SCALE <= MaxTicks
          /\ delta' = delta + e * TimeStep
    /\ delta0' = delta'
    /\ calls' = 0
    /\ pc' = "while"
    /\ UNCHANGED <<spheres, lights, updates, frames, canvas, screen, i, j,
                   visits, ticks, ray, result>>

\* UpdateStep with `delta = 0.0`: the fraction is dropped.
UpdateStepDropsFraction ==
    /\ pc = "while"
    /\ delta >= Fx(1)
    /\ spheres' = update(spheres)
    /\ updates' = updates + 1
    /\ delta' = IF delta >= Fx(2) THEN delta - Fx(1) ELSE 0
    /\ calls' = calls + 1
    /\ ticks' = ticks + 1
    /\ UNCHANGED <<pc, lights, frames, canvas, screen, i, j, visits, delta0,
                   ray, result>>

\* main: one turn of `while delta >= 1.0`.
UpdateStep ==
    /\ pc = "while"
    /\ delta >= Fx(1)
    /\ spheres' = update(spheres)
    /\ updates' = updates + 1
    /\ delta' = delta - Fx(1)
    /\ calls' = calls + 1
    /\ ticks' = ticks + 1
    /\ UNCHANGED <<pc, lights, frames, canvas, screen, i, j, visits, delta0,
                   ray, result>>

\* main: the while loop is left and render starts: the canvas is cleared.
RenderBegin ==
    /\ pc = "while"
    /\ ~(delta >= Fx(1))
    /\ canvas' = Clear
    /\ i' = 0
    /\ j' = 0
    /\ visits' = NoVisits
    /\ pc' = "pixels"
    /\ UNCHANGED <<spheres, lights, delta, updates, frames, screen, delta0,
                   calls, ticks, ray, result>>

\* RenderPixel that also steps the simulation.
RenderPixelUpdating ==
    /\ pc = "pixels"
    /\ i < WIDTH
    /\ canvas' = DrawPixel(canvas, <<i, j>>, spheres, lights)
    /\ visits' = [visits EXCEPT ![<<i, j>>] = @ + 1]
    /\ spheres' = update(spheres)
    /\ IF j + 1 < HEIGHT
       THEN i' = i /\ j' = j + 1
       ELSE i' = i + 1 /\ j' = 0
    /\ UNCHANGED <<pc, lights, delta, updates, frames, screen, delta0,
                   calls, ticks, ray, result>>

\* render: the closure runs for pixel (i, j); j is the inner loop.
RenderPixel ==
    /\ pc = "pixels"
    /\ i < WIDTH
    /\ canvas' = DrawPixel(canvas, <<i, j>>, spheres, lights)
    /\ visits' = [visits EXCEPT ![<<i, j>>] = @ + 1]
    /\ IF j + 1 < HEIGHT
       THEN i' = i /\ j' = j + 1
       ELSE i' = i + 1 /\ j' = 0
    /\ UNCHANGED <<pc, spheres, lights, delta, updates, frames, screen, delta0,
                   calls, ticks, ray, result>>

\* render: canvas.present(); main counts the frame.
Present ==
    /\ pc = "pixels"
    /\ i = WIDTH
    /\ screen' = canvas
    /\ frames' = frames + 1
    /\ pc' = "report"
    /\ UNCHANGED <<spheres, lights, delta, updates, canvas, i, j, visits,
                   delta0, calls, ticks, ray, result>>

\* main: once a second the counters are printed and reset.
Report ==
    /\ pc = "report"
    /\ \E second_passed \in BOOLEAN :
          /\ second_passed \/ frames < MaxFrames
          /\ IF second_passed
             THEN updates' = 0 /\ frames' = 0
             ELSE UNCHANGED <<updates, frames>>
    /\ pc' = "loop"
    /\ UNCHANGED <<spheres, lights, delta, canvas, screen, i, j, visits,
                   delta0, calls, ticks, ray, result>>

Next ==
    \/ PollEvents
    \/ AddElapsed
    \/ UpdateStep
    \/ RenderBegin
    \/ RenderPixel
    \/ Present
    \/ Report

Spec == Init /\ [][Next]_vars

\* ------------------------------------------------- the functions, one by one
\* Each function of the renderer is also studied on its own: the scene and
\* the ray are drawn from small sets and the function is applied to them.

loopVars == <<delta, updates, frames, canvas, screen, i, j, visits, delta0,
              calls, ticks>>

\* main's loop has not started.
LoopIdle ==
    /\ delta = 0
    /\ updates = 0
    /\ frames = 0
    /\ canvas = Blank
    /\ screen = Blank
    /\ i = 0
    /\ j = 0
    /\ visits = NoVisits
    /\ delta0 = 0
    /\ calls = 0
    /\ ticks = 0

NoRay == Ray(Zero3, Zero3)

\* Sequences of at most n elements of S.
SeqsUpTo(S, n) == UNION {[1 .. k -> S] : k \in 0 .. n}

\* Sequences of at most n elements of S, none twice.
ListsUpTo(S, n) ==
    {q \in SeqsUpTo(S, n) : \A a, b \in 1 .. Len(q) : q[a] = q[b] => a = b}

\* Sphere centres are drawn from the grid of points with whole coordinates
\* up to MaxCoord, radii from 1 .. MaxRadius.
MaxCoord == 2

MaxRadius == 2

Grid == {V(x, y, z) : x \in -MaxCoord .. MaxCoord, y \in -MaxCoord .. MaxCoord,
                      z \in -MaxCoord .. MaxCoord}

\* The unit vectors toward the 26 neighbours of a grid point.
Directions ==
    {normalise(V(d[1], d[2], d[3])) :
        d \in ((-1 .. 1) \X (-1 .. 1) \X (-1 .. 1)) \ {<<0, 0, 0>>}}

RayOrigins == {Zero3, V(0, 0, 1)}

InitRay ==
    /\ pc = "ray_intersect"
    /\ \E c \in Grid, r \in 1 .. MaxRadius : spheres = <<Sphere(c, Fx(r), ivory)>>
    /\ lights = <<>>
    /\ ray = NoRay
    /\ result = NoCall
    /\ LoopIdle

\* spheres[1].ray_intersect(&ray) is called.
CallRayIntersect ==
    /\ pc = "ray_intersect"
    /\ \E o \in RayOrigins, d \in Directions :
          /\ ray' = Ray(o, d)
          /\ result' = [op |-> "ray_intersect", out |-> ray_intersect(spheres[1], ray')]
    /\ pc' = "returned"
    /\ UNCHANGED <<spheres, lights>>
    /\ UNCHANGED loopVars

NextRay == CallRayIntersect

SpecRay == InitRay /\ [][NextRay]_vars

\* C1: a ray whose origin is outside the sphere, with the sphere ahead of it
\* and hit, gets the entry distance tca - thc; a ray whose origin is inside
\* gets the exit distance tca + thc; a ray that misses (d2 > radius^2), or
\* whose sphere lies wholly behind its origin, gets None; and no distance
\* returned is negative.
C1_EntryExitOrNone ==
    result.op = "ray_intersect" =>
        LET s   == spheres[1]
            l   == Sub(s.centre, ray.origin)
            ll  == dot(l, l)
            r2  == Mul(s.radius, s.radius)
            tca == dot(l, ray.direction)
            d2  == ll - Mul(tca, tca)
            thc == Sqrt(r2 - d2)
            out == result.out
        IN  /\ d2 > r2 => out = None
            /\ ll > r2 /\ tca < 0 => out = None
            /\ ll > r2 /\ tca > 0 /\ d2 <= r2 => out = Some(tca - thc)
            /\ ll < r2 => out = Some(tca + thc)
            /\ out.some => out.val >= 0

\* A ray from inside the sphere got its exit distance, which is farther than
\* the centre is.
C1_Witness ==
    /\ result.op = "ray_intersect"
    /\ dot(Sub(spheres[1].centre, ray.origin), Sub(spheres[1].centre, ray.origin))
         < Mul(spheres[1].radius, spheres[1].radius)
    /\ spheres[1].centre # ray.origin
    /\ result.out.some
    /\ result.out.val > 0

\* The spheres the scenes of the studies are made of.  On the ray down the
\* z axis from the origin: SphereA and SphereA2 (the same place, another
\* material) and SphereE are all entered at distance 4; SphereC holds the
\* origin; the three far spheres are entered at 1001, 1000 and 999.
\* SphereB is beside that ray, between SphereA and the light LightRight.
\* SphereD is entered at distance 5 by the ray toward (-0.8, 0, -0.6).
SphereA == Sphere(V(0, 0, -5), Fx(1), ivory)

SphereA2 == Sphere(V(0, 0, -5), Fx(1), red_rubber)

SphereB == Sphere(Vec3(1500, 0, -2000), Fx(1), red_rubber)

SphereC == Sphere(V(0, 0, 0), Fx(3), red_rubber)

SphereD == Sphere(V(-4, 0, -4), Fx(1), ivory)

SphereE == Sphere(V(0, 0, -6), Fx(2), red_rubber)

SphereFar1 == Sphere(V(0, 0, -1002), Fx(1), ivory)

SphereFar2 == Sphere(V(0, 0, -1002), Fx(2), red_rubber)

SphereFar3 == Sphere(V(0, 0, -1002), Fx(3), ivory)

RayDown == Ray(Zero3, V(0, 0, -1))

RaySlant == Ray(Zero3, Vec3(-800, 0, -600))

RayUp == Ray(Zero3, V(0, 0, 1))

\* The longest list of spheres, and of lights, of a scene.
MaxSpheres == 2

MaxLights == 2

SceneSpheres ==
    {SphereA, SphereA2, SphereB, SphereC, SphereD, SphereE,
     SphereFar1, SphereFar2, SphereFar3}

SceneRays == {RayDown, RaySlant, RayUp}

InitScene ==
    /\ pc = "scene_intersect"
    /\ spheres \in SeqsUpTo(SceneSpheres, MaxSpheres)
    /\ lights = <<>>
    /\ ray = NoRay
    /\ result = NoCall
    /\ LoopIdle

\* scene_intersect(&ray, &spheres) is called.
CallSceneIntersect ==
    /\ pc = "scene_intersect"
    /\ \E r \in SceneRays :
          /\ ray' = r
          /\ result' = [op |-> "scene_intersect", out |-> scene_intersect(r, spheres)]
    /\ pc' = "returned"
    /\ UNCHANGED <<spheres, lights>>
    /\ UNCHANGED loopVars

NextScene == CallSceneIntersect

SpecScene == InitScene /\ [][NextScene]_vars

\* The spheres of the list the ray meets, and how far.
Met == {k \in 1 .. Len(spheres) : ray_intersect(spheres[k], ray).some}

Dist(k) == ray_intersect(spheres[k], ray).val

\* C2: a hit returned by scene_intersect is that of a sphere whose distance
\* is the least of all the spheres met, and of the first such sphere of the
\* list: the point at that distance, the normal from that sphere's centre,
\* that sphere's material.
C2_NearestFirst ==
    result.op = "scene_intersect" /\ result.out.some =>
        \E k \in Met :
            /\ \A m \in Met : Dist(k) <= Dist(m)
            /\ \A m \in Met : m < k => Dist(m) > Dist(k)
            /\ LET hit == Add(ray.origin, VMul(ray.direction, Dist(k)))
               IN  result.out.val =
                       [hit      |-> hit,
                        normal   |-> normalise(Sub(hit, spheres[k].centre)),
                        material |-> spheres[k].material]

\* Two spheres of different materials are met at the same least distance,
\* and the hit has the material of the first.
C2_Witness ==
    /\ result.op = "scene_intersect"
    /\ result.out.some
    /\ Len(spheres) = 2
    /\ Met = {1, 2}
    /\ Dist(1) = Dist(2)
    /\ spheres[1].material # spheres[2].material
    /\ result.out.val.material = spheres[1].material

\* C7: scene_intersect returns None when no sphere is met or the nearest
\* one is farther than 1000, and a hit when the nearest is nearer than 1000.
C7_MaxDistance ==
    result.op = "scene_intersect" =>
        /\ Met = {} => result.out = None
        /\ (Met # {} /\ \A k \in Met : Dist(k) > Fx(1000)) => result.out = None
        /\ (\E k \in Met : Dist(k) < Fx(1000)) => result.out.some

\* A sphere is met, the nearest at more than 1000, and None came back.
C7_Witness ==
    /\ result.op = "scene_intersect"
    /\ Met # {}
    /\ \A k \in Met : Dist(k) > Fx(1000)
    /\ result.out = None

LightEye == Light(V(0, 0, 0), 1500)

LightRight == Light(V(3, 0, 0), 1800)

LightLeft == Light(V(-3, 0, 0), 1700)

ShadeSpheres == {SphereA, SphereB, SphereC, SphereD}

ShadeLights == {LightEye, LightRight, LightLeft}

ShadeRays == {RayDown, RaySlant}

InitShade ==
    /\ pc = "cast_ray"
    /\ spheres \in ListsUpTo(ShadeSpheres, MaxSpheres)
    /\ lights \in ListsUpTo(ShadeLights, MaxLights)
    /\ ray = NoRay
    /\ result = NoCall
    /\ LoopIdle

\* cast_ray(&ray, &spheres, &lights) is called.
CallCastRay ==
    /\ pc = "cast_ray"
    /\ \E r \in ShadeRays :
          /\ ray' = r
          /\ result' = [op |-> "cast_ray", out |-> cast_ray(r, spheres, lights)]
    /\ pc' = "returned"
    /\ UNCHANGED <<spheres, lights>>
    /\ UNCHANGED loopVars

NextShade == CallCastRay

SpecShade == InitShade /\ [][NextShade]_vars

\* The list q without its m-th element.
Without(q, m) == [k \in 1 .. Len(q) - 1 |-> IF k < m THEN q[k] ELSE q[k + 1]]

\* What the k-th light adds to the two sums of cast_ray, in the scene sph.
Added(k, h, sph) ==
    LET before == LightLoop(k - 1, h, ray, sph, lights)
        after  == LightLoop(k, h, ray, sph, lights)
    IN  <<after.diffuse_intensity - before.diffuse_intensity,
          after.specular_intensity - before.specular_intensity>>

\* C3: a light whose shadow ray meets the scene nearer than the light is
\* adds nothing to either sum; a light that is not occluded adds what it
\* adds in the scene without any one sphere other than the one seen.
C3_Shadow ==
    result.op = "cast_ray" /\ result.out.some =>
        LET h == scene_intersect(ray, spheres).val
        IN  \A k \in 1 .. Len(lights) :
                IF Occluded(h, lights[k], spheres)
                THEN Added(k, h, spheres) = <<0, 0>>
                ELSE \A m \in 1 .. Len(spheres) :
                        scene_intersect(ray, Without(spheres, m)) = Some(h)
                            => Added(k, h, spheres) = Added(k, h, Without(spheres, m))

\* One light is cut off by a sphere, without which it would add to the
\* diffuse sum, and another light is not occluded and adds to it.
C3_Witness ==
    /\ result.op = "cast_ray"
    /\ result.out.some
    /\ LET h == scene_intersect(ray, spheres).val
       IN  \E k, n \in 1 .. Len(lights) :
              /\ k # n
              /\ Occluded(h, lights[k], spheres)
              /\ Added(k, h, spheres) = <<0, 0>>
              /\ \E m \in 1 .. Len(spheres) :
                    /\ scene_intersect(ray, Without(spheres, m)) = Some(h)
                    /\ ~Occluded(h, lights[k], Without(spheres, m))
                    /\ Added(k, h, Without(spheres, m))[1] > 0
              /\ ~Occluded(h, lights[n], spheres)
              /\ Added(n, h, spheres)[1] > 0

\* C6: after every prefix of the lights both sums of cast_ray are >= 0 and
\* not less than before, and a light whose diffuse (specular) dot product is
\* negative leaves the diffuse (specular) sum as it was.
C6_SumsGrow ==
    result.op = "cast_ray" /\ result.out.some =>
        LET h == scene_intersect(ray, spheres).val
        IN  \A k \in 1 .. Len(lights) :
                LET before == LightLoop(k - 1, h, ray, spheres, lights)
                    after  == LightLoop(k, h, ray, spheres, lights)
                IN  /\ before.diffuse_intensity >= 0
                    /\ before.specular_intensity >= 0
                    /\ after.diffuse_intensity >= before.diffuse_intensity
                    /\ after.specular_intensity >= before.specular_intensity
                    /\ DiffuseDot(h, lights[k]) < 0
                          => after.diffuse_intensity = before.diffuse_intensity
                    /\ SpecularDot(h, lights[k], ray) < 0
                          => after.specular_intensity = before.specular_intensity

\* A light that is not occluded has a negative diffuse dot product: it is on
\* the far side of the surface seen.
C6_Witness ==
    /\ result.op = "cast_ray"
    /\ result.out.some
    /\ LET h == scene_intersect(ray, spheres).val
       IN  \E k \in 1 .. Len(lights) :
              /\ lights[k].intensity > 0
              /\ ~Occluded(h, lights[k], spheres)
              /\ DiffuseDot(h, lights[k]) < 0
              /\ Added(k, h, spheres)[1] = 0

\* The channels of the colours tone-mapped: the quarters from -0.25 to
\* MaxChannel quarters.
MaxChannel == 9

Channels == {n * (SCALE \div 4) : n \in -1 .. MaxChannel}

InitTone ==
    /\ pc = "tone"
    /\ spheres = <<>>
    /\ lights = <<>>
    /\ ray = NoRay
    /\ result = NoCall
    /\ LoopIdle

\* render: the colour v of a pixel is tone-mapped.
CallToneMap ==
    /\ pc = "tone"
    /\ \E x \in Channels, y \in Channels, z \in Channels :
          result' = [op |-> "tone", v |-> Vec3(x, y, z), out |-> ToneMap(Vec3(x, y, z))]
    /\ pc' = "returned"
    /\ UNCHANGED <<spheres, lights, ray>>
    /\ UNCHANGED loopVars

NextTone == CallToneMap

SpecTone == InitTone /\ [][NextTone]_vars

\* A channel within [0, 1] as a byte: 255 * channel, the fraction dropped.
Byte(c) == (255 * c) \div SCALE

Clamp01(c) == IF c < 0 THEN 0 ELSE IF c > SCALE THEN SCALE ELSE c

\* C5: a colour whose largest channel is at most 1 is clamped and quantised
\* as it is; one whose largest channel exceeds 1 is first multiplied by
\* 1/max, channel by channel, and then clamped and quantised; (2, 1, 0)
\* gives (255, 127 or 128, 0).
C5_RescaleThenClamp ==
    result.op = "tone" =>
        LET v   == result.v
            max == FMax(v.x, FMax(v.y, v.z))
            inv == Div(Fx(1), max)
        IN  /\ max <= Fx(1) =>
                  result.out = <<Byte(Clamp01(v.x)), Byte(Clamp01(v.y)), Byte(Clamp01(v.z))>>
            /\ max > Fx(1) =>
                  result.out = <<Byte(Clamp01(Mul(v.x, inv))), Byte(Clamp01(Mul(v.y, inv))),
                                 Byte(Clamp01(Mul(v.z, inv)))>>
            /\ v = V(2, 1, 0) => result.out \in {<<255, 127, 0>>, <<255, 128, 0>>}

\* (2, 1, 0) was tone-mapped, to (255, 127, 0).
C5_Witness ==
    /\ result.op = "tone"
    /\ result.v = V(2, 1, 0)
    /\ result.out = <<255, 127, 0>>

\* --------------------------------------------------- a pass in any order
\* The closures of one render pass run in any order, each pixel once, over
\* the scene as main has it after some updates.

RECURSIVE Updated(_)
\* The spheres after n calls of update.
Updated(n) == IF n = 0 THEN MainSpheres ELSE update(Updated(n - 1))

InitAnyOrder ==
    /\ pc = "render"
    /\ spheres \in {Updated(n) : n \in 0 .. MaxTicks}
    /\ lights = MainLights
    /\ ray = NoRay
    /\ result = NoCall
    /\ LoopIdle

\* render: the canvas is cleared.
PassBegin ==
    /\ pc = "render"
    /\ canvas' = Clear
    /\ visits' = NoVisits
    /\ pc' = "pixels"
    /\ UNCHANGED <<spheres, lights, delta, updates, frames, screen, i, j, delta0,
                   calls, ticks, ray, result>>

\* render: the closure runs for a pixel it has not run for.
ComputePixel ==
    /\ pc = "pixels"
    /\ \E p \in Pixels :
          /\ visits[p] = 0
          /\ canvas' = DrawPixel(canvas, p, spheres, lights)
          /\ visits' = [visits EXCEPT ![p] = @ + 1]
    /\ UNCHANGED <<pc, spheres, lights, delta, updates, frames, screen, i, j,
                   delta0, calls, ticks, ray, result>>

\* render: canvas.present(), once the closure has run for every pixel.
PassPresent ==
    /\ pc = "pixels"
    /\ \A p \in Pixels : visits[p] > 0
    /\ screen' = canvas
    /\ pc' = "shown"
    /\ UNCHANGED <<spheres, lights, delta, updates, frames, canvas, i, j, visits,
                   delta0, calls, ticks, ray, result>>

NextAnyOrder ==
    \/ PassBegin
    \/ ComputePixel
    \/ PassPresent

SpecAnyOrder == InitAnyOrder /\ [][NextAnyOrder]_vars

\* ------------------------------------------- the frames and the main loop

\* The primary ray of pixel p meets no sphere.
Misses(p) ==
    \A k \in 1 .. Len(spheres) :
        ~ray_intersect(spheres[k], PrimaryRay(p[1], p[2])).some

\* The bytes of a pixel as the scene and the pixel's place alone give them.
PixelOf(p) ==
    LET c == cast_ray(PrimaryRay(p[1], p[2]), spheres, lights)
    IN  IF c.some THEN ToneMap(c.val)
        ELSE <<Byte(BACKGROUND_COLOUR.x), Byte(BACKGROUND_COLOUR.y),
               Byte(BACKGROUND_COLOUR.z)>>

C8_NoMutationInRender ==
    [][ /\ pc \in {"pixels", "report"} => (spheres' = spheres /\ lights' = lights)
        /\ spheres' # spheres => (pc = "while" /\ pc' = "while" /\ delta >= Fx(1))
        /\ (pc # "pixels" /\ pc' = "pixels") => (pc = "while" /\ ~(delta >= Fx(1)))
      ]_vars

\* A pass was presented in an iteration in which update ran.
C8_Witness ==
    /\ pc = "report"
    /\ calls > 0
    /\ spheres # MainSpheres
    /\ \A p \in Pixels : visits[p] = 1

\* C10: from the start of render to the next addition of elapsed time,
\* update has run floor(delta0) times in this iteration, delta0 being delta
\* as it was after the addition, and delta is what is left of delta0:
\* delta0 - calls, within [0, 1).
C10_WholeUpdates ==
    pc \in {"pixels", "report", "loop", "time"} =>
        /\ 0 <= delta
        /\ delta < Fx(1)
        /\ calls = delta0 \div SCALE
        /\ delta = delta0 - Fx(calls)

\* Render starts after two or more updates with a fraction left over.
C10_Witness ==
    /\ pc = "pixels"
    /\ calls >= 2
    /\ delta > 0
    /\ delta0 = Fx(calls) + delta

====
